---- MODULE Spec2Model ----
(***************************************************************************)
(* bimap::bidirectional_map (src/bidirectional_map.hpp): two base maps     *)
(* whose nodes reference each other's key slot.  A bidirectional_map       *)
(* object holds its own base map ("map") and a pointer to the object of    *)
(* the inverse type ("inverseAccess"); the nodes of all base maps live in  *)
(* one heap and are identified by their address.                           *)
(***************************************************************************)
EXTENDS Integers, Sequences, FiniteSets, Bags

\* ------------------------------------------------------------------ bounds
\* keys of either key type are 1..NKeys
NKeys == 2
\* node addresses are 1..MaxAddr; an emplace needs two free addresses
MaxAddr == 8
\* a container grows to MaxPairs pairs, which leaves memory for one more pair
MaxPairs == (MaxAddr - 2) \div 2

Key == 1..NKeys
Addr == 1..MaxAddr

\* the null pointer (Surrogate built from nullptr, AllocOncePointer())
NULL == 0
\* the past-the-end iterator of a base map
END == -1

\* ------------------------------------------------------- types and objects
\* bidirectional_map objects: automatic objects of the program and the
\* objects an owning AllocOncePointer allocates with new
\* (x and y are variables of the program, t is the by-value parameter of
\* operator=)
StackInst == {"x", "y", "t"}
HeapInst == <<"h1", "h2", "h3">>
Inst == StackInst \cup {HeapInst[n] : n \in DOMAIN HeapInst}

\* the base containers the class documents as supported
MapTypes == {"unordered_map", "map", "unordered_multimap", "multimap"}

is_multimap(M) == M \in {"unordered_multimap", "multimap"}

\* std::map and std::multimap iterate in key order
IsSorted(M) == M \in {"map", "multimap"}

\* the template arguments of a bidirectional_map type
OtherKey(K) == IF K = "T" THEN "U" ELSE "T"

\* a type with two different key types
BiMapType(K, F, I) ==
    [ForwardKey |-> K, InverseKey |-> OtherKey(K), ForwardMapType |-> F, InverseMapType |-> I]

\* a type whose two key types are the same: with the same base container on
\* both sides its InverseBiMap is the type itself
SameKeyType(F, I) ==
    [ForwardKey |-> "T", InverseKey |-> "T", ForwardMapType |-> F, InverseMapType |-> I]

InverseBiMap(T) ==
    [ForwardKey |-> T.InverseKey, InverseKey |-> T.ForwardKey,
     ForwardMapType |-> T.InverseMapType, InverseMapType |-> T.ForwardMapType]

NoType == [ForwardKey |-> "-", InverseKey |-> "-", ForwardMapType |-> "-", InverseMapType |-> "-"]

Types == {BiMapType(K, F, I) : K \in {"T", "U"}, F \in MapTypes, I \in MapTypes}

\* a node of a base map: std::pair<const Key, Surrogate<const OtherKey>>
Free == [first |-> 0, second |-> NULL]

\* AllocOncePointer: the address held and the ownership flag
AllocOncePointer(data, owner) == [data |-> data, owner |-> owner]

NullPointer == AllocOncePointer("null", FALSE)

VARIABLES
    heap,           \* node address -> node, Free when not allocated
    map,            \* object -> its base map: node addresses in iteration order
    inverseAccess,  \* object -> its AllocOncePointer to the inverse object
    type,           \* object -> the template arguments of its class
    live,           \* the objects constructed and not yet destroyed
    frame,          \* the local variables and the position of the member
                    \* function that is running, NoFrame between calls
    stored          \* history: object -> the bag of pairs (forward key, inverse
                    \* key) its callers were told are in it: those an emplace
                    \* reported inserted, less those an erase or clear took out

vars == <<heap, map, inverseAccess, type, live, frame, stored>>

\* the memory of the program as one value, so that a member function is an
\* operator from memory to memory
World == [heap |-> heap, map |-> map, inverseAccess |-> inverseAccess,
          type |-> type, live |-> live]

\* ------------------------------------------------------------ base maps
Range(s) == {s[n] : n \in DOMAIN s}

InsertAt(s, p, e) == SubSeq(s, 1, p - 1) \o <<e>> \o SubSeq(s, p, Len(s))

RemoveAt(s, p) == SubSeq(s, 1, p - 1) \o SubSeq(s, p + 1, Len(s))

IndexOf(s, e) == IF e \in Range(s) THEN CHOOSE n \in DOMAIN s : s[n] = e ELSE 0

\* the iterator following position p of s
IterAt(s, p) == IF p \in DOMAIN s THEN s[p] ELSE END

Next_it(s, it) == IterAt(s, IndexOf(s, it) + 1)

\* it->first of a base map iterator; *ptr of a Surrogate
KeyAt(w, p) == IF p \in Addr THEN w.heap[p].first ELSE 0

\* indices of the nodes of base map i whose key is k
EqualIdx(w, i, k) == {n \in DOMAIN w.map[i] : w.heap[w.map[i][n]].first = k}

Min(S) == CHOOSE m \in S : \A n \in S : m <= n

Max(S) == CHOOSE m \in S : \A n \in S : m >= n

\* base map find: the first node of the key's equal range, or end()
MapFind(w, i, k) ==
    IF EqualIdx(w, i, k) = {} THEN END ELSE w.map[i][Min(EqualIdx(w, i, k))]

\* base map equal_range as the pair (first, last) of iterators
MapEqualRange(w, i, k) ==
    IF EqualIdx(w, i, k) = {} THEN <<END, END>>
    ELSE <<w.map[i][Min(EqualIdx(w, i, k))], IterAt(w.map[i], Max(EqualIdx(w, i, k)) + 1)>>

\* where a base map may place a new node with key k: a sorted map after the
\* last key <= k; an unordered map anywhere that keeps equal keys adjacent
InsertPositions(w, i, k) ==
    LET s == w.map[i]
        M == w.type[i].ForwardMapType
    IN IF IsSorted(M)
       THEN {1 + Cardinality({n \in DOMAIN s : w.heap[s[n]].first <= k})}
       ELSE IF EqualIdx(w, i, k) # {}
       THEN Min(EqualIdx(w, i, k)) .. (Max(EqualIdx(w, i, k)) + 1)
       ELSE {p \in 1..(Len(s) + 1) :
                p = 1 \/ p = Len(s) + 1 \/ w.heap[s[p - 1]].first # w.heap[s[p]].first}

FreeAddrs(w) == {a \in Addr : w.heap[a] = Free}

\* base map emplace(key, ptr) with the new node placed at position p; a
\* unique-key map that holds the key inserts nothing and returns that node
MapEmplace(w, i, k, ptr, p) ==
    IF ~is_multimap(w.type[i].ForwardMapType) /\ MapFind(w, i, k) # END
    THEN [w |-> w, first |-> MapFind(w, i, k), second |-> FALSE]
    ELSE LET n == Min(FreeAddrs(w))
         IN [w |-> [w EXCEPT !.heap[n] = [first |-> k, second |-> ptr],
                             !.map[i] = InsertAt(@, p, n)],
             first |-> n, second |-> TRUE]

\* base map erase(iterator): the node is released, the next iterator returned
MapErase(w, i, it) ==
    [w |-> [w EXCEPT !.heap[it] = Free, !.map[i] = RemoveAt(@, IndexOf(@, it))],
     first |-> Next_it(w.map[i], it)]

\* ------------------------------------------------------ bidirectional_map
inverse(w, h) == w.inverseAccess[h].data

size(w, h) == Len(w.map[h])

empty(w, h) == w.map[h] = <<>>

begin(w, h) == IterAt(w.map[h], 1)

\* iterator::operator* : (it->first, *it->second)
Deref(w, it) == <<KeyAt(w, it), KeyAt(w, IF it \in Addr THEN w.heap[it].second ELSE NULL)>>

Flip(p) == <<p[2], p[1]>>

\* the pairs an iteration of h from begin() to end() dereferences, in order
PairSeq(w, h) == [n \in DOMAIN w.map[h] |-> Deref(w, w.map[h][n])]

PairsOf(w, h) == Range(PairSeq(w, h))

PairBag(w, h) ==
    [p \in PairsOf(w, h) |-> Cardinality({n \in DOMAIN w.map[h] : PairSeq(w, h)[n] = p})]

FlipBag(B) == [p \in {Flip(q) : q \in DOMAIN B} |-> B[Flip(p)]]

find(w, h, key) == MapFind(w, h, key)

contains(w, h, key) == find(w, h, key) # END

equal_range(w, h, key) == MapEqualRange(w, h, key)

\* emplace without the lookup of the inverse key
emplace_skip_inverse_check(w, h, a, b, fp, ip) ==
    LET res == find(w, h, a)
    IN IF ~is_multimap(w.type[h].ForwardMapType) /\ res # END
       THEN [w |-> w, first |-> res, second |-> FALSE]
       ELSE LET e1 == MapEmplace(w, h, a, NULL, fp)
                e2 == MapEmplace(e1.w, inverse(w, h), b, e1.first, ip)
            IN [w |-> [e2.w EXCEPT !.heap[e1.first].second = e2.first],
                first |-> e1.first, second |-> TRUE]

\* emplace that leaves the placeholder in the forward node
emplace_no_patch(w, h, a, b, fp, ip) ==
    LET res == find(w, h, a)
        invRes == find(w, inverse(w, h), b)
    IN IF ~is_multimap(w.type[h].ForwardMapType) /\ res # END
       THEN [w |-> w, first |-> res, second |-> FALSE]
       ELSE IF ~is_multimap(w.type[h].InverseMapType) /\ invRes # END
       THEN [w |-> w, first |-> find(w, h, Deref(w, invRes)[2]), second |-> FALSE]
       ELSE LET e1 == MapEmplace(w, h, a, NULL, fp)
                e2 == MapEmplace(e1.w, inverse(w, h), b, e1.first, ip)
            IN [w |-> e2.w, first |-> e1.first, second |-> TRUE]

\* emplace whose rejection by the inverse key returns the forward lookup
emplace_reject_returns_res(w, h, a, b, fp, ip) ==
    LET res == find(w, h, a)
        invRes == find(w, inverse(w, h), b)
    IN IF ~is_multimap(w.type[h].ForwardMapType) /\ res # END
       THEN [w |-> w, first |-> res, second |-> FALSE]
       ELSE IF ~is_multimap(w.type[h].InverseMapType) /\ invRes # END
       THEN [w |-> w, first |-> res, second |-> FALSE]
       ELSE LET e1 == MapEmplace(w, h, a, NULL, fp)
                e2 == MapEmplace(e1.w, inverse(w, h), b, e1.first, ip)
            IN [w |-> [e2.w EXCEPT !.heap[e1.first].second = e2.first],
                first |-> e1.first, second |-> TRUE]

\* emplace that rejects a stored key whatever the base containers are
emplace_unique_only(w, h, a, b, fp, ip) ==
    LET res == find(w, h, a)
        invRes == find(w, inverse(w, h), b)
    IN IF res # END
       THEN [w |-> w, first |-> res, second |-> FALSE]
       ELSE IF invRes # END
       THEN [w |-> w, first |-> find(w, h, Deref(w, invRes)[2]), second |-> FALSE]
       ELSE LET e1 == MapEmplace(w, h, a, NULL, fp)
                e2 == MapEmplace(e1.w, inverse(w, h), b, e1.first, ip)
            IN [w |-> [e2.w EXCEPT !.heap[e1.first].second = e2.first],
                first |-> e1.first, second |-> TRUE]

\* emplace that returns the iterator of the inverse map
emplace_returns_invIt(w, h, a, b, fp, ip) ==
    LET res == find(w, h, a)
        invRes == find(w, inverse(w, h), b)
    IN IF ~is_multimap(w.type[h].ForwardMapType) /\ res # END
       THEN [w |-> w, first |-> res, second |-> FALSE]
       ELSE IF ~is_multimap(w.type[h].InverseMapType) /\ invRes # END
       THEN [w |-> w, first |-> find(w, h, Deref(w, invRes)[2]), second |-> FALSE]
       ELSE LET e1 == MapEmplace(w, h, a, NULL, fp)
                e2 == MapEmplace(e1.w, inverse(w, h), b, e1.first, ip)
            IN [w |-> [e2.w EXCEPT !.heap[e1.first].second = e2.first],
                first |-> e2.first, second |-> TRUE]

emplace(w, h, a, b, fp, ip) ==
    LET T == w.type[h]
        res == find(w, h, a)
        invRes == find(w, inverse(w, h), b)
    IN IF ~is_multimap(T.ForwardMapType) /\ res # END
       THEN [w |-> w, first |-> res, second |-> FALSE]
       ELSE IF ~is_multimap(T.InverseMapType) /\ invRes # END
       THEN [w |-> w, first |-> find(w, h, Deref(w, invRes)[2]), second |-> FALSE]
       ELSE LET e1 == MapEmplace(w, h, a, NULL, fp)
                it == e1.first
                e2 == MapEmplace(e1.w, inverse(w, h), b, it, ip)
                invIt == e2.first
            IN [w |-> [e2.w EXCEPT !.heap[it].second = invIt],
                first |-> it, second |-> TRUE]

\* erase(iterator): the sibling node is looked up in the inverse map (by
\* address within the equal range when that map is multi-valued, by key
\* otherwise) and erased, then the node of pos.  ok is FALSE when the lookup
\* ends at the end of the range: the assert fails, or end() is erased
\* the sibling looked up by key alone
SiblingByKey(w, h, pos) == MapFind(w, inverse(w, h), Deref(w, pos)[2])

SiblingOf(w, h, pos) ==
    LET inv == inverse(w, h)
        k2 == Deref(w, pos)[2]
        hit == {n \in EqualIdx(w, inv, k2) : w.map[inv][n] = w.heap[pos].second}
    IN IF is_multimap(w.type[h].InverseMapType)
       THEN IF hit = {} THEN END ELSE w.map[inv][Min(hit)]
       ELSE MapFind(w, inv, k2)

\* erase that leaves the inverse map alone
erase_own_only(w, h, pos) ==
    IF pos = END THEN [w |-> w, first |-> pos, ok |-> TRUE]
    ELSE [w |-> MapErase(w, h, pos).w, first |-> MapErase(w, h, pos).first, ok |-> TRUE]

\* erase that returns the iterator following the erased sibling
erase_returns_sibling_next(w, h, pos) ==
    IF pos = END THEN [w |-> w, first |-> pos, ok |-> TRUE]
    ELSE LET curr == SiblingOf(w, h, pos)
         IN IF curr = END THEN [w |-> w, first |-> END, ok |-> FALSE]
            ELSE LET e1 == MapErase(w, inverse(w, h), curr)
                     e2 == MapErase(e1.w, h, pos)
                 IN [w |-> e2.w, first |-> e1.first, ok |-> TRUE]

erase(w, h, pos) ==
    IF pos = END THEN [w |-> w, first |-> pos, ok |-> TRUE]
    ELSE LET curr == SiblingOf(w, h, pos)
         IN IF curr = END THEN [w |-> w, first |-> END, ok |-> FALSE]
            ELSE LET e1 == MapErase(w, inverse(w, h), curr)
                     e2 == MapErase(e1.w, h, pos)
                 IN [w |-> e2.w, first |-> e2.first, ok |-> TRUE]

\* the loop of erase(key): curr = erase(curr) until curr = last
RECURSIVE EraseWhile(_, _, _, _, _)
EraseWhile(w, h, curr, last, numErased) ==
    IF curr = last THEN [w |-> w, first |-> curr, n |-> numErased, ok |-> TRUE]
    ELSE LET e == erase(w, h, curr)
         IN IF curr = END \/ ~e.ok
            THEN [w |-> w, first |-> curr, n |-> numErased, ok |-> FALSE]
            ELSE EraseWhile(e.w, h, e.first, last, numErased + 1)

\* erase by key that erases the node find returns and no other
erase_key_first_only(w, h, key) ==
    LET it == find(w, h, key)
        e == erase(w, h, it)
    IN [w |-> e.w, first |-> e.first, n |-> IF it = END THEN 0 ELSE 1, ok |-> e.ok]

erase_key(w, h, key) ==
    LET r == equal_range(w, h, key)
    IN EraseWhile(w, h, r[1], r[2], 0)

\* the loop of erase(first, last), which also stops at end()
RECURSIVE EraseUntil(_, _, _, _, _)
EraseUntil(w, h, first, last, numErased) ==
    IF first = last \/ first = END
    THEN [w |-> w, first |-> first, n |-> numErased, ok |-> TRUE]
    ELSE LET e == erase(w, h, first)
         IN IF ~e.ok THEN [w |-> w, first |-> first, n |-> numErased, ok |-> FALSE]
            ELSE EraseUntil(e.w, h, e.first, last, numErased + 1)

\* erase of a range that runs to end() whatever last is
erase_range_to_end(w, h, first, last) == EraseUntil(w, h, first, END, 0)

erase_range(w, h, first, last) == EraseUntil(w, h, first, last, 0)

\* clear(): both base maps release all their nodes
MapClear(w, i) ==
    [w EXCEPT !.heap = [a \in Addr |-> IF a \in Range(w.map[i]) THEN Free ELSE w.heap[a]],
              !.map[i] = <<>>]

\* ------------------------------------------------------------- comparison
\* operator== of two base containers of one type.  The elements are pairs of
\* a key and a Surrogate, and Surrogate::operator== compares the keys the
\* pointers reference.  std::map and std::multimap compare the two sequences
\* element by element; std::unordered_map looks every element of the one up
\* in the other; std::unordered_multimap compares the groups of equal keys as
\* permutations of each other
MapEq(w, i, j) ==
    LET M == w.type[i].ForwardMapType
        s == PairSeq(w, i)
        t == PairSeq(w, j)
        Group(q, k) == {n \in DOMAIN q : q[n][1] = k}
        Count(q, k, v) == Cardinality({n \in Group(q, k) : q[n][2] = v})
    IN /\ Len(s) = Len(t)
       /\ IF IsSorted(M)
          THEN \A n \in DOMAIN s : s[n] = t[n]
          ELSE IF ~is_multimap(M)
          THEN \A n \in DOMAIN s :
                  LET f == MapFind(w, j, s[n][1])
                  IN f # END /\ Deref(w, f) = s[n]
          ELSE \A k \in Key :
                  /\ Cardinality(Group(s, k)) = Cardinality(Group(t, k))
                  /\ \A v \in Key : Count(s, k, v) = Count(t, k, v)

\* operator== that compares the pointers of the Surrogates
operator_eq_by_pointer(w, h, other) ==
    /\ [n \in DOMAIN w.map[h] |-> w.heap[w.map[h][n]]] =
       [n \in DOMAIN w.map[other] |-> w.heap[w.map[other][n]]]
    /\ MapEq(w, inverse(w, h), inverse(w, other))

\* operator==(other): map == other.map && inverseAccess->map == other.inverseAccess->map
operator_eq(w, h, other) ==
    /\ MapEq(w, h, other)
    /\ MapEq(w, inverse(w, h), inverse(w, other))

\* operator!=(other)
operator_ne(w, h, other) == ~operator_eq(w, h, other)

\* at that returns the key of the node found
at_returns_first(w, h, key) ==
    LET res == find(w, h, key)
    IN IF res = END
       THEN [w |-> w, threw |-> "out_of_range", value |-> NULL]
       ELSE [w |-> w, threw |-> "", value |-> Deref(w, res)[1]]

\* at(key) const, of a unique-key forward base: throws std::out_of_range when
\* find(key) is end(), returns res->second otherwise
at(w, h, key) ==
    LET res == find(w, h, key)
    IN IF res = END
       THEN [w |-> w, threw |-> "out_of_range", value |-> NULL]
       ELSE [w |-> w, threw |-> "", value |-> Deref(w, res)[2]]

\* clear that clears the map of the object and not the inverse map
clear_own_only(w, h) == MapClear(w, h)

clear(w, h) == MapClear(MapClear(w, h), inverse(w, h))


\* ---------------------------------------------------------- construction
\* bidirectional_map(): the object gets an empty map and an owning pointer to
\* a new inverse object, built by the private constructor from *this
NewInst(w) == HeapInst[Min({n \in DOMAIN HeapInst : HeapInst[n] \notin w.live})]

InverseCtor(w, i, inverseMap, T) ==
    [w EXCEPT !.map[i] = <<>>,
              !.inverseAccess[i] = AllocOncePointer(inverseMap, FALSE),
              !.type[i] = T,
              !.live = @ \cup {i}]

DefaultCtor(w, h, T) ==
    LET w1 == [w EXCEPT !.map[h] = <<>>, !.type[h] = T, !.live = @ \cup {h}]
        i == NewInst(w1)
    IN [InverseCtor(w1, i, h, InverseBiMap(T)) EXCEPT
            !.inverseAccess[h] = AllocOncePointer(i, TRUE)]

\* emplace of every item in turn, for every placement the base maps may
\* choose: the set of memories that can result
RECURSIVE EmplaceAll(_, _, _)
EmplaceAll(W, h, items) ==
    IF items = <<>> THEN W
    ELSE EmplaceAll({emplace(w, h, items[1][1], items[1][2], fp, ip).w :
                        <<w, fp, ip>> \in
                            {c \in W \X (1..(MaxAddr + 1)) \X (1..(MaxAddr + 1)) :
                                /\ c[2] \in InsertPositions(c[1], h, items[1][1])
                                /\ c[3] \in InsertPositions(c[1], inverse(c[1], h), items[1][2])}},
                    h, Tail(items))

\* bidirectional_map(InputIt start, InputIt end), and the initializer list
RangeCtor(w, h, T, items) == EmplaceAll({DefaultCtor(w, h, T)}, h, items)

\* copy constructor whose maps take over the nodes of the maps of other
copy_shares_nodes(w, h, other) ==
    LET w1 == DefaultCtor(w, h, w.type[other])
    IN {[w1 EXCEPT !.map[h] = w.map[other],
                   !.map[inverse(w1, h)] = w.map[inverse(w, other)]]}

\* bidirectional_map(const bidirectional_map &other)
CopyCtor(w, h, other) ==
    EmplaceAll({DefaultCtor(w, h, w.type[other])}, h, PairSeq(w, other))

\* swap that exchanges the maps of the two objects and not the inverse maps
swap_forward_only(w, a, b) ==
    [w EXCEPT !.map[a] = w.map[b], !.map[b] = w.map[a]]

\* swap that exchanges the pointers to the inverse objects as well
swap_all_members(w, a, b) ==
    [w EXCEPT !.map[a] = w.map[b], !.map[b] = w.map[a],
              !.inverseAccess[a] = w.inverseAccess[b],
              !.inverseAccess[b] = w.inverseAccess[a]]

\* swap(other): std::swap of the two maps, then of the two inverse maps
swap(w, a, b) ==
    LET w1 == [w EXCEPT !.map[a] = w.map[b], !.map[b] = w.map[a]]
        ia == inverse(w, a)
        ib == inverse(w, b)
    IN [w1 EXCEPT !.map[ia] = w1.map[ib], !.map[ib] = w1.map[ia]]

\* move constructor that takes the map of other and, for its inverse access,
\* a pointer to the inverse object of other
move_borrows_inverse(w, h, other) ==
    [w EXCEPT !.map[h] = w.map[other],
              !.map[other] = <<>>,
              !.inverseAccess[h] = AllocOncePointer(inverse(w, other), FALSE),
              !.type[h] = w.type[other],
              !.live = @ \cup {h}]

\* move constructor that takes the forward map and leaves the inverse map
move_forward_only(w, h, other) ==
    LET w1 == DefaultCtor(w, h, w.type[other])
    IN [w1 EXCEPT !.map[h] = w1.map[other], !.map[other] = w1.map[h]]

\* bidirectional_map(bidirectional_map &&other)
MoveCtor(w, h, other) == swap(DefaultCtor(w, h, w.type[other]), h, other)

\* the end of an object: its map releases its nodes
Release(w, i) ==
    [MapClear(w, i) EXCEPT !.inverseAccess[i] = NullPointer,
                           !.type[i] = NoType,
                           !.live = @ \ {i}]

\* ~bidirectional_map(): inverseAccess deletes the inverse object when it
\* owns it, then map is destroyed
Dtor(w, h) ==
    LET p == w.inverseAccess[h]
    IN Release(IF p.owner THEN Release(w, p.data) ELSE w, h)

\* operator=(bidirectional_map other): the parameter t is copy- or
\* move-constructed from src, swapped with *this and destroyed
Assign(w, h, src, byMove) ==
    {Dtor(swap(w1, h, "t"), "t") :
        w1 \in IF byMove THEN {MoveCtor(w, "t", src)} ELSE CopyCtor(w, "t", src)}

Blank ==
    [heap |-> [a \in Addr |-> Free],
     map |-> [i \in Inst |-> <<>>],
     inverseAccess |-> [i \in Inst |-> NullPointer],
     type |-> [i \in Inst |-> NoType],
     live |-> {}]

\* no member function is running
NoFrame ==
    [pc |-> "idle", h |-> "-", tmp |-> <<0, 0>>, it |-> NULL, invIt |-> NULL,
     input |-> <<>>, start |-> 0]

\* the program continues in memory w with the running function at f
Continue(w, f) ==
    /\ heap' = w.heap
    /\ map' = w.map
    /\ inverseAccess' = w.inverseAccess
    /\ type' = w.type
    /\ live' = w.live
    /\ frame' = f

\* a member function has run from call to return and left memory w
Commit(w) == Continue(w, frame)

\* The object x is built by the default constructor.  Its inverse object has
\* the template arguments swapped and runs the same member functions, so a
\* pair of base containers is drawn in one order only.
MapPairs ==
    {<<"unordered_map", "unordered_map">>, <<"map", "map">>,
     <<"unordered_map", "map">>, <<"unordered_map", "multimap">>,
     <<"map", "unordered_multimap">>, <<"map", "multimap">>,
     <<"multimap", "multimap">>}

InitWorld(w) ==
    /\ heap = w.heap
    /\ map = w.map
    /\ inverseAccess = w.inverseAccess
    /\ type = w.type
    /\ live = w.live
    /\ frame = NoFrame
    /\ stored = [i \in Inst |-> IF i \in w.live THEN PairBag(w, i) ELSE EmptyBag]

Init ==
    \E FI \in MapPairs : InitWorld(DefaultCtor(Blank, "x", BiMapType("T", FI[1], FI[2])))

\* ------------------------------------------------------- pairs of a view
\* the sub-bag of the pairs of B whose forward key is (keep) or is not key
WithKey(B, key, keep) ==
    LET D == {p \in DOMAIN B : (p[1] = key) = keep} IN [p \in D |-> B[p]]

\* the history after a call on h changed the pairs of h from stored[h] to B
Told(h, B) ==
    stored' = [stored EXCEPT ![h] = B, ![inverse(World, h)] = FlipBag(B)]

\* ------------------------------------------------------------- operations
\* the iterators a caller can hold of h: one per stored node, and end()
Iterators(h) == Range(map[h]) \cup {END}

\* the nodes of the range [first, last) of h
RangeNodes(h, first, last) ==
    LET s == map[h]
        lo == IF first = END THEN Len(s) + 1 ELSE IndexOf(s, first)
        hi == IF last = END THEN Len(s) + 1 ELSE IndexOf(s, last)
    IN {s[n] : n \in lo..(hi - 1)}

BagOfNodes(N) ==
    LET P == {Deref(World, n) : n \in N}
    IN [p \in P |-> Cardinality({n \in N : Deref(World, n) = p})]

\* the memory can take one more pair
Room == Cardinality(FreeAddrs(World)) >= 2

\* the calls of emplace the program makes: on a container below MaxPairs
CanEmplace(h) == Room /\ size(World, h) < MaxPairs

Emplace(h, a, b) ==
    /\ CanEmplace(h)
    /\ \E fp \in InsertPositions(World, h, a),
          ip \in InsertPositions(World, inverse(World, h), b) :
          LET r == emplace(World, h, a, b, fp, ip)
          IN /\ Commit(r.w)
             /\ Told(h, IF r.second THEN stored[h] (+) SetToBag({<<a, b>>}) ELSE stored[h])

Erase(h, pos) ==
    LET r == erase(World, h, pos)
    IN /\ r.ok
       /\ Commit(r.w)
       /\ Told(h, IF pos = END THEN stored[h]
                  ELSE stored[h] (-) SetToBag({Deref(World, pos)}))

EraseKey(h, key) ==
    LET r == erase_key(World, h, key)
    IN /\ r.ok
       /\ Commit(r.w)
       /\ Told(h, WithKey(stored[h], key, FALSE))

EraseRange(h, first, last) ==
    LET r == erase_range(World, h, first, last)
    IN /\ r.ok
       /\ Commit(r.w)
       /\ Told(h, stored[h] (-) BagOfNodes(RangeNodes(h, first, last)))

Clear(h) ==
    /\ Commit(clear(World, h))
    /\ Told(h, EmptyBag)

Next ==
    \/ \E h \in live, a \in Key, b \in Key : Emplace(h, a, b)
    \/ \E h \in live : \E pos \in Iterators(h) : Erase(h, pos)
    \/ \E h \in live, key \in Key : EraseKey(h, key)
    \/ \E h \in live : \E p \in 1..(Len(map[h]) + 1) : \E q \in p..(Len(map[h]) + 1) :
          EraseRange(h, IterAt(map[h], p), IterAt(map[h], q))
    \/ \E h \in live : Clear(h)

Spec == Init /\ [][Next]_vars

\* both base containers of h are unique-key containers
UniqueBases(h) ==
    /\ ~is_multimap(type[h].ForwardMapType)
    /\ ~is_multimap(type[h].InverseMapType)

\* the stores hold what the callers were told
StoresAsTold == \A h \in live : PairBag(World, h) = stored[h]

\* C1: after every call made through either view, size() of an object equals
\* size() of its inverse() view
C1_CardinalityEquality ==
    \A h \in live : size(World, h) = size(World, inverse(World, h))

\* an emplace and an erase have acted: two pairs are stored and a released
\* address lies below a used one
C1_Witness ==
    /\ size(World, "x") = 2
    /\ size(World, inverse(World, "x")) = 2
    /\ \E f \in Addr, u \in Addr : f < u /\ heap[f] = Free /\ heap[u] # Free

\* some address has been released and not reused: an erase has acted
Hole == \E f \in Addr, u \in Addr : f < u /\ heap[f] = Free /\ heap[u] # Free

\* C2: every node of a store references a live node of the inverse store
\* that references it back (the same slot, by address) and holds the paired
\* key; every node of the inverse store is referenced by exactly one node
C2_CrossConsistency ==
    \A h \in live :
        LET inv == inverse(World, h)
        IN /\ \A n \in Range(map[h]) :
                LET r == heap[n].second
                IN /\ r # NULL
                   /\ r \in Addr
                   /\ heap[r] # Free
                   /\ r \in Range(map[inv])
                   /\ heap[r].second = n
                   /\ CopiesIn(<<heap[n].first, heap[r].first>>, stored[h]) >= 1
           /\ \A m \in Range(map[inv]) :
                Cardinality({n \in Range(map[h]) : heap[n].second = m}) = 1

\* two pairs with the same inverse key are left after an erase
C2_Witness ==
    /\ Hole
    /\ size(World, "x") = 2
    /\ PairSeq(World, "x")[1][2] = PairSeq(World, "x")[2][2]

\* C3: with unique-key base containers on both sides no two stored pairs
\* share a forward key and no two share an inverse key
C3_Injectivity ==
    \A h \in live :
        UniqueBases(h) =>
            \A n \in DOMAIN map[h], m \in DOMAIN map[h] :
                n # m => /\ PairSeq(World, h)[n][1] # PairSeq(World, h)[m][1]
                         /\ PairSeq(World, h)[n][2] # PairSeq(World, h)[m][2]

\* two pairs coexist in a container with unique-key bases
C3_Witness == UniqueBases("x") /\ size(World, "x") >= 2

\* C4: with unique-key bases, for every pair (a, b) inserted and not erased
\* since, find(a) denotes (a, b) and inverse().find(b) denotes (b, a); for a
\* key that is not stored find returns end() and contains returns false
C4_FindRoundTrip ==
    \A h \in live :
        UniqueBases(h) =>
            /\ \A p \in BagToSet(stored[h]) :
                /\ find(World, h, p[1]) # END
                /\ Deref(World, find(World, h, p[1])) = p
                /\ Deref(World, find(World, inverse(World, h), p[2])) = Flip(p)
            /\ \A k \in Key :
                (\A p \in BagToSet(stored[h]) : p[1] # k) =>
                    /\ find(World, h, k) = END
                    /\ ~contains(World, h, k)

\* a pair is stored, a key is not, and a pair has been erased
C4_Witness ==
    /\ UniqueBases("x")
    /\ Hole
    /\ stored["x"] # EmptyBag
    /\ \E k \in Key : \A p \in BagToSet(stored["x"]) : p[1] # k

\* the forward keys and the inverse keys of the pairs stored in h
ForwardKeys(h) == {p[1] : p \in BagToSet(stored[h])}

InverseKeys(h) == {p[2] : p \in BagToSet(stored[h])}

\* s without the entries in N
Without(s, N) == SelectSeq(s, LAMBDA e : e \notin N)

\* C5: with unique-key bases, emplace(a, b) with a a stored forward key or b
\* a stored inverse key leaves both stores as they were and returns false
\* and the iterator of the pair with forward key a, or else of the pair with
\* inverse key b
C5_RejectedEmplace ==
    \A h \in live, a \in Key, b \in Key :
        (UniqueBases(h) /\ (a \in ForwardKeys(h) \/ b \in InverseKeys(h))) =>
            \A fp \in InsertPositions(World, h, a),
               ip \in InsertPositions(World, inverse(World, h), b) :
                LET r == emplace(World, h, a, b, fp, ip)
                IN /\ r.w = World
                   /\ r.second = FALSE
                   /\ r.first \in Range(map[h])
                   /\ CopiesIn(Deref(World, r.first), stored[h]) = 1
                   /\ IF a \in ForwardKeys(h)
                      THEN Deref(World, r.first)[1] = a
                      ELSE Deref(World, r.first)[2] = b

\* a pair has been inserted; one emplace is rejected for its forward key
\* alone and another for its inverse key alone
C5_Witness ==
    /\ UniqueBases("x")
    /\ size(World, "x") >= 1
    /\ \E a \in ForwardKeys("x"), b \in Key :
          /\ b \notin InverseKeys("x")
          /\ \E fp \in InsertPositions(World, "x", a),
                ip \in InsertPositions(World, inverse(World, "x"), b) :
                ~emplace(World, "x", a, b, fp, ip).second
    /\ \E a \in Key, b \in InverseKeys("x") :
          /\ a \notin ForwardKeys("x")
          /\ \E fp \in InsertPositions(World, "x", a),
                ip \in InsertPositions(World, inverse(World, "x"), b) :
                ~emplace(World, "x", a, b, fp, ip).second

\* C6: emplace(a, b) with a not a stored forward key and b not a stored
\* inverse key returns (iterator of (a, b), true), adds one to size() of
\* both views, and afterwards find(a) denotes (a, b) and inverse().find(b)
\* denotes (b, a)
C6_AcceptedEmplace ==
    \A h \in live, a \in Key, b \in Key :
        (CanEmplace(h) /\ a \notin ForwardKeys(h) /\ b \notin InverseKeys(h)) =>
            \A fp \in InsertPositions(World, h, a),
               ip \in InsertPositions(World, inverse(World, h), b) :
                LET inv == inverse(World, h)
                    r == emplace(World, h, a, b, fp, ip)
                IN /\ r.second = TRUE
                   /\ r.first \in Range(r.w.map[h])
                   /\ r.first \notin Range(map[h])
                   /\ Deref(r.w, r.first) = <<a, b>>
                   /\ size(r.w, h) = size(World, h) + 1
                   /\ size(r.w, inv) = size(World, inv) + 1
                   /\ Deref(r.w, find(r.w, h, a)) = <<a, b>>
                   /\ Deref(r.w, find(r.w, inv, b)) = <<b, a>>

\* pairs are stored, one was erased, and a further pair is acceptable
C6_Witness ==
    /\ size(World, "x") >= 1
    /\ Hole
    /\ CanEmplace("x")
    /\ \E a \in Key, b \in Key : a \notin ForwardKeys("x") /\ b \notin InverseKeys("x")

\* what C8 says of emplace(a, b) on h and emplace(b, a) on its inverse view,
\* both from the current memory; find_a is what the claim says of find(a)
\* after an accepted inverse emplace
InverseEmplaceAgrees(find_a(_, _, _, _)) ==
    \A h \in live, a \in Key, b \in Key :
        CanEmplace(h) =>
            \A fp \in InsertPositions(World, h, a),
               ip \in InsertPositions(World, inverse(World, h), b) :
                LET inv == inverse(World, h)
                    r1 == emplace(World, h, a, b, fp, ip)
                    r2 == emplace(World, inv, b, a, ip, fp)
                IN /\ r1.second = r2.second
                   /\ PairBag(r1.w, h) = PairBag(r2.w, h)
                   /\ PairBag(r1.w, inv) = PairBag(r2.w, inv)
                   /\ ~r2.second => r2.w = World
                   /\ r2.second =>
                        /\ PairBag(r2.w, h) = PairBag(World, h) (+) SetToBag({<<a, b>>})
                        /\ find_a(r2.w, h, a, b)

FindDenotes(w, h, a, b) == Deref(w, find(w, h, a)) = <<a, b>>

\* (a, b) is among the pairs of equal_range(a), and is the pair find(a)
\* denotes when the forward base container is a unique-key container
InEqualRange(w, h, a, b) ==
    /\ \E n \in EqualIdx(w, h, a) : PairSeq(w, h)[n] = <<a, b>>
    /\ ~is_multimap(w.type[h].ForwardMapType) => FindDenotes(w, h, a, b)

\* C8 as claimed: an accepted inverse().emplace(b, a) makes find(a) denote
\* (a, b), whatever the base containers
C8_InverseEmplace_Claimed == InverseEmplaceAgrees(FindDenotes)

\* C8: inverse().emplace(b, a) makes the same insert-or-reject decision and
\* leaves the same pairs in both views as emplace(a, b); rejected, it leaves
\* the memory unchanged; accepted, it adds (a, b) to the forward view, where
\* it is in equal_range(a), and find(a) denotes it when the forward base
\* container is a unique-key container
C8_InverseEmplace == InverseEmplaceAgrees(InEqualRange)

\* a pair (a, c) is stored in a view with a multi-valued forward base, and
\* an emplace of (b, a) through its inverse view is accepted and adds a
\* second pair to the forward key a, after which find(a) denotes (a, c)
C8_Witness ==
    \E h \in live, a \in Key, b \in Key :
        /\ is_multimap(type[h].ForwardMapType)
        /\ a \in ForwardKeys(h)
        /\ CanEmplace(h)
        /\ \E fp \in InsertPositions(World, h, a),
              ip \in InsertPositions(World, inverse(World, h), b) :
              LET r == emplace(World, inverse(World, h), b, a, ip, fp)
              IN /\ r.second
                 /\ size(r.w, h) = size(World, h) + 1
                 /\ Deref(r.w, find(r.w, h, a)) # <<a, b>>

\* C9: erase(pos) of a stored pair (a, b) removes the node of pos and the
\* node it references from the two stores and nothing else, so both sizes
\* drop by one and, with unique-key bases, find(a) and inverse().find(b)
\* return end(); it returns the iterator that followed pos.  erase(end())
\* changes nothing and returns end().  h ranges over both views
C9_EraseIterator ==
    \A h \in live :
        \A pos \in Iterators(h) :
            LET inv == inverse(World, h)
                r == erase(World, h, pos)
                p == Deref(World, pos)
            IN IF pos = END
               THEN r.ok /\ r.w = World /\ r.first = END
               ELSE /\ r.ok
                    /\ r.w.map[h] = Without(map[h], {pos})
                    /\ r.w.map[inv] = Without(map[inv], {heap[pos].second})
                    /\ r.w.heap = [n \in Addr |->
                          IF n \in {pos, heap[pos].second} THEN Free ELSE heap[n]]
                    /\ PairBag(r.w, h) = stored[h] (-) SetToBag({p})
                    /\ PairBag(r.w, inv) = stored[inv] (-) SetToBag({Flip(p)})
                    /\ size(r.w, h) = size(World, h) - 1
                    /\ size(r.w, inv) = size(World, inv) - 1
                    /\ r.first = IterAt(map[h], IndexOf(map[h], pos) + 1)
                    /\ UniqueBases(h) =>
                          /\ find(r.w, h, p[1]) = END
                          /\ find(r.w, inv, p[2]) = END

\* a pair was erased, and a stored pair with a successor can be
C9_Witness ==
    /\ Hole
    /\ size(World, "x") >= 2
    /\ erase(World, "x", begin(World, "x")).first # END
    /\ erase(World, inverse(World, "x"), begin(World, inverse(World, "x"))).first # END

\* the number of pairs of h with forward key key
CountKey(h, key) == BagCardinality(WithKey(stored[h], key, TRUE))

\* C10: erase(key) removes every pair with forward key key together with the
\* node it references in the inverse store, leaves all other pairs, and
\* returns the number removed: 0 for an absent key (nothing changes), 1 for
\* a stored key of a unique-key forward base
C10_EraseKey ==
    \A h \in live, key \in Key :
        LET inv == inverse(World, h)
            r == erase_key(World, h, key)
            gone == {n \in Range(map[h]) : heap[n].first = key}
        IN /\ r.ok
           /\ r.n = CountKey(h, key)
           /\ r.n = Cardinality(gone)
           /\ r.w.map[h] = Without(map[h], gone)
           /\ r.w.map[inv] = Without(map[inv], {heap[n].second : n \in gone})
           /\ PairBag(r.w, h) = WithKey(stored[h], key, FALSE)
           /\ PairBag(r.w, inv) = FlipBag(WithKey(stored[h], key, FALSE))
           /\ key \notin ForwardKeys(h) => (r.n = 0 /\ r.w = World)
           /\ (key \in ForwardKeys(h) /\ ~is_multimap(type[h].ForwardMapType)) => r.n = 1

\* in a multi-valued forward store a key has two pairs and another key one,
\* and erase(key) removes the two and leaves the one
C10_Witness ==
    \E h \in live, key \in Key :
        /\ is_multimap(type[h].ForwardMapType)
        /\ CountKey(h, key) = 2
        /\ size(World, h) = 3
        /\ erase_key(World, h, key).n = 2
        /\ size(erase_key(World, h, key).w, h) = 1

\* ------------------------------------------------- objects of the program
\* the second container y, copies, moves, assignments, swaps and destruction

\* the history of an object g becomes B, that of its inverse object its flip
Retold(S, g, B) == [S EXCEPT ![g] = B, ![inverse(World, g)] = FlipBag(B)]

Containers == {"x", "y"}

\* y{} or x{}: a container of the type of a live object
ConstructDefault(c, g) ==
    /\ c \notin live
    /\ LET w == DefaultCtor(World, c, type[g])
       IN /\ Commit(w)
          /\ stored' = [stored EXCEPT ![c] = EmptyBag, ![inverse(w, c)] = EmptyBag]

\* auto c = g;
ConstructCopy(c, g) ==
    /\ c \notin live
    /\ Cardinality(FreeAddrs(World)) >= 2 * size(World, g)
    /\ \E w \in CopyCtor(World, c, g) :
          /\ Commit(w)
          /\ stored' = [stored EXCEPT ![c] = stored[g], ![inverse(w, c)] = FlipBag(stored[g])]

\* auto c = std::move(g);
ConstructMove(c, g) ==
    /\ c \notin live
    /\ LET w == MoveCtor(World, c, g)
       IN /\ Commit(w)
          /\ stored' = [Retold(stored, g, EmptyBag) EXCEPT
                            ![c] = stored[g], ![inverse(w, c)] = FlipBag(stored[g])]

\* h = g;  and  h = std::move(g);
AssignCopy(h, g) ==
    /\ type[h] = type[g]
    /\ Cardinality(FreeAddrs(World)) >= 2 * size(World, g)
    /\ \E w \in Assign(World, h, g, FALSE) :
          /\ Commit(w)
          /\ stored' = Retold(stored, h, stored[g])

AssignMove(h, g) ==
    /\ type[h] = type[g]
    /\ \E w \in Assign(World, h, g, TRUE) :
          /\ Commit(w)
          /\ stored' = Retold(Retold(stored, g, EmptyBag), h, stored[g])

\* swap(h, g);
Swap(h, g) ==
    /\ type[h] = type[g]
    /\ Commit(swap(World, h, g))
    /\ stored' = Retold(Retold(stored, h, stored[g]), g, stored[h])

\* the container c goes out of scope while the other one lives
Destroy(c) ==
    /\ c \in live
    /\ (Containers \ {c}) \cap live # {}
    /\ Commit(Dtor(World, c))
    /\ stored' = Retold(stored, c, EmptyBag)

\* x is built from a list of at most MaxItems pairs, so that a copy of x
\* fits in the memory
MaxItems == MaxAddr \div 4

ItemLists == UNION {[1..n -> Key \X Key] : n \in 0..MaxItems}

InitObj ==
    \E FI \in MapPairs, items \in ItemLists :
        \E w \in RangeCtor(Blank, "x", BiMapType("T", FI[1], FI[2]), items) : InitWorld(w)

NextObj ==
    \/ \E h \in live : Clear(h)
    \/ \E c \in Containers, g \in live : ConstructDefault(c, g)
    \/ \E c \in Containers, g \in live : ConstructCopy(c, g)
    \/ \E c \in Containers, g \in live : ConstructMove(c, g)
    \/ \E h \in live, g \in live : AssignCopy(h, g)
    \/ \E h \in live, g \in live : AssignMove(h, g)
    \/ \E h \in live, g \in live : Swap(h, g)
    \/ Destroy("y")

SpecObj == InitObj /\ [][NextObj]_vars

\* C7: for every live object, however it came to be, inverse() is a live
\* object of the inverse type and inverse().inverse() is the object itself,
\* so that a call made through either is a call on the same stores: an
\* erase through inverse().inverse() is seen through the object and through
\* inverse()
C7_InverseIdentity ==
    \A h \in live :
        /\ inverse(World, h) \in live
        /\ inverse(World, inverse(World, h)) = h
        /\ type[inverse(World, h)] = InverseBiMap(type[h])
        /\ PairBag(World, inverse(World, h)) = FlipBag(PairBag(World, h))
        /\ \A pos \in Range(map[h]) :
              LET r == erase(World, inverse(World, inverse(World, h)), pos)
              IN /\ r.ok
                 /\ PairBag(r.w, h) = PairBag(World, h) (-) SetToBag({Deref(World, pos)})
                 /\ PairBag(r.w, inverse(World, h)) = FlipBag(PairBag(r.w, h))

\* y lives and holds a pair, and so does x
C7_Witness ==
    /\ {"x", "y"} \subseteq live
    /\ size(World, "y") >= 1
    /\ size(World, "x") >= 1
    /\ inverse(World, "y") # "h1"

\* ------------------------------------------------------ ranges and clear
\* the positions p <= q of h bound the valid range [IterAt(p), IterAt(q))
ValidRanges(h) ==
    {pq \in (1..(Len(map[h]) + 1)) \X (1..(Len(map[h]) + 1)) : pq[1] <= pq[2]}

\* C11: for a valid range [first, last) of h, erase(first, last) ends, frees
\* exactly the nodes of the range and the inverse nodes they reference, so
\* size() drops by the length of the range on both views and every other
\* pair stays in place, and returns last
C11_EraseRange ==
    \A h \in live :
        \A pq \in ValidRanges(h) :
            LET inv == inverse(World, h)
                first == IterAt(map[h], pq[1])
                last == IterAt(map[h], pq[2])
                gone == RangeNodes(h, first, last)
                r == erase_range(World, h, first, last)
            IN /\ r.ok
               /\ r.n = pq[2] - pq[1]
               /\ r.first = last
               /\ r.w.map[h] = Without(map[h], gone)
               /\ r.w.map[inv] = Without(map[inv], {heap[n].second : n \in gone})
               /\ r.w.heap = [n \in Addr |->
                     IF n \in gone \cup {heap[g].second : g \in gone}
                     THEN Free ELSE heap[n]]
               /\ size(r.w, h) = size(World, h) - (pq[2] - pq[1])
               /\ size(r.w, inv) = size(World, inv) - (pq[2] - pq[1])

\* three pairs are stored and the range of the first two, which ends before
\* end(), is erased, leaving the third
C11_Witness ==
    \E h \in live :
        /\ size(World, h) = 3
        /\ LET r == erase_range(World, h, IterAt(map[h], 1), IterAt(map[h], 3))
           IN /\ r.n = 2
              /\ r.first = map[h][3]
              /\ r.w.map[h] = <<map[h][3]>>

\* C12: clear() on any view empties both maps: empty() is true and size()
\* is 0 on both views, every find returns end(), all their nodes are
\* released, and an emplace that follows is accepted and found
C12_Clear ==
    \A h \in live :
        LET inv == inverse(World, h)
            w == clear(World, h)
        IN /\ empty(w, h) /\ empty(w, inv)
           /\ size(w, h) = 0 /\ size(w, inv) = 0
           /\ \A k \in Key : find(w, h, k) = END /\ find(w, inv, k) = END
           /\ \A k \in Key : ~contains(w, h, k) /\ ~contains(w, inv, k)
           /\ w.heap = [n \in Addr |->
                 IF n \in Range(map[h]) \cup Range(map[inv]) THEN Free ELSE heap[n]]
           /\ w.inverseAccess = inverseAccess /\ w.live = live
           /\ \A a \in Key, b \in Key :
                 LET r == emplace(w, h, a, b, 1, 1)
                 IN /\ r.second
                    /\ size(r.w, h) = 1 /\ size(r.w, inv) = 1
                    /\ Deref(r.w, find(r.w, h, a)) = <<a, b>>
                    /\ Deref(r.w, find(r.w, inv, b)) = <<b, a>>

\* two pairs are stored and clear() through the inverse view empties the
\* view it was not called on
C12_Witness ==
    \E h \in live :
        /\ size(World, h) >= 2
        /\ Hole
        /\ empty(clear(World, inverse(World, h)), h)
        /\ empty(clear(World, h), inverse(World, h))

\* -------------------------------------------------------------------- at
\* at is a member of the views whose forward base is a unique-key container
HasAt(h) == ~is_multimap(type[h].ForwardMapType)

\* C13: with a unique-key forward base, at(key) returns the inverse key of
\* the pair stored for key, and for an absent key throws out_of_range; in
\* both cases the memory is as before.  h ranges over both views
C13_At ==
    \A h \in live, key \in Key :
        HasAt(h) =>
            LET r == at(World, h, key)
            IN /\ r.w = World
               /\ IF key \in ForwardKeys(h)
                  THEN /\ r.threw = ""
                       /\ r.value \in Key
                       /\ CopiesIn(<<key, r.value>>, stored[h]) = 1
                  ELSE r.threw = "out_of_range"

\* a view holds a pair (a, b) with a # b under a, another key is absent, and
\* at answers for both; its inverse view has at as well
C13_Witness ==
    \E h \in live, a \in Key, c \in Key :
        /\ HasAt(h) /\ HasAt(inverse(World, h))
        /\ Hole
        /\ at(World, h, a).threw = ""
        /\ at(World, h, a).value # a
        /\ at(World, inverse(World, h), at(World, h, a).value).value = a
        /\ at(World, h, c).threw = "out_of_range"

\* ------------------------------------------------------------------ copies
\* the objects of another container than that of h
Others(h) == live \ {h, inverse(World, h)}

\* h is the only container there is
Alone(h) == h \in Containers /\ Others(h) = {}

\* what g holds in memory w: its sequence of nodes and their contents
Held(w, g) == [m |-> w.map[g], nodes |-> [n \in Range(w.map[g]) |-> w.heap[n]]]

\* C14: two containers share no node, so a copy shares none with its source:
\* every emplace, erase and clear through a view h leaves what the objects
\* of every other container hold as it was, whichever of the two is the copy
C14_CopyIndependence ==
    \A h \in live :
        \A g \in Others(h) :
            /\ Range(map[h]) \cap Range(map[g]) = {}
            /\ Held(clear(World, h), g) = Held(World, g)
            /\ \A pos \in Range(map[h]) :
                  LET r == erase(World, h, pos)
                  IN r.ok /\ Held(r.w, g) = Held(World, g)
            /\ CanEmplace(h) =>
                  \A a \in Key, b \in Key :
                      \A fp \in InsertPositions(World, h, a),
                         ip \in InsertPositions(World, inverse(World, h), b) :
                          Held(emplace(World, h, a, b, fp, ip).w, g) = Held(World, g)

\* y is a copy of x, both hold the same two pairs, and an erase and an
\* accepted emplace on one of them can follow
C14_Witness ==
    /\ {"x", "y"} \subseteq live
    /\ type["x"] = type["y"]
    /\ size(World, "x") = 2
    /\ PairBag(World, "x") = PairBag(World, "y")
    /\ Range(map["x"]) # Range(map["y"])
    /\ size(erase(World, "x", begin(World, "x")).w, "y") = 2
    /\ size(clear(World, inverse(World, "y")), "x") = 2

\* the memory can take a copy of g
RoomForCopy(g) == Cardinality(FreeAddrs(World)) >= 2 * size(World, g)

\* every copy of g, by construction (auto t = g) or by assignment to an
\* object h of its type (h = g), compares equal to g, both ways round
CopiesCompareEqual(g) ==
    RoomForCopy(g) =>
        /\ \A w \in CopyCtor(World, "t", g) :
              operator_eq(w, "t", g) /\ operator_eq(w, g, "t")
        /\ \A h \in live :
              type[h] = type[g] =>
                  \A w \in Assign(World, h, g, FALSE) :
                      operator_eq(w, h, g) /\ operator_eq(w, g, h)

\* C15: right after copy construction or copy assignment the copy compares
\* equal to its source, in every reachable state and for every pair of base
\* containers
C15_CopyEqual == \A g \in live : CopiesCompareEqual(g)

\* the copies compare equal when the inverse base container of the source is
\* not std::multimap, whose order among equal keys is the order of insertion
CopyEqualUnlessInverseMultimap ==
    \A g \in live : type[g].InverseMapType # "multimap" => CopiesCompareEqual(g)

\* in w the object h is live with a live inverse object that has h as its
\* inverse, and every node of h references a node of the inverse object that
\* references it back
Consistent(w, h) ==
    LET inv == inverse(w, h)
    IN /\ {h, inv} \subseteq w.live
       /\ inverse(w, inv) = h
       /\ Len(w.map[h]) = Len(w.map[inv])
       /\ \A n \in Range(w.map[h]) :
             /\ w.heap[n] # Free
             /\ w.heap[n].second \in Range(w.map[inv])
             /\ w.heap[w.heap[n].second].second = n

\* -------------------------------------------------------------------- moves
\* g is empty in w, on both views, and emplace through g is accepted, is
\* seen from both views, and leaves what moved holds as it was; g ranges
\* over containers and inverse views
UsableAfterMove(w, g, moved) ==
    LET inv == inverse(w, g)
    IN /\ empty(w, g) /\ empty(w, inv)
       /\ inverse(w, inv) = g
       /\ Cardinality(FreeAddrs(w)) >= 2 =>
             \A a \in Key, b \in Key :
                 LET r == emplace(w, g, a, b, 1, 1)
                 IN /\ r.second
                    /\ PairSeq(r.w, g) = <<<<a, b>>>>
                    /\ PairSeq(r.w, inv) = <<<<b, a>>>>
                    /\ Held(r.w, moved) = Held(w, moved)
                    /\ Held(r.w, inverse(w, moved)) = Held(w, inverse(w, moved))

\* C16: after a move from g, by construction (auto t = std::move(g)) or by
\* assignment to another object h of its type (h = std::move(g)), the target
\* holds the pairs g held, in both views, g and g.inverse() are empty, and g
\* is usable: it is a live empty container with its own inverse object, and
\* after a move construction emplace through g and through g.inverse() is
\* accepted and changes g only
C16_Move ==
    \A g \in live :
        /\ LET w == MoveCtor(World, "t", g)
           IN /\ PairSeq(w, "t") = PairSeq(World, g)
              /\ PairSeq(w, inverse(w, "t")) = PairSeq(World, inverse(World, g))
              /\ UsableAfterMove(w, g, "t")
              /\ UsableAfterMove(w, inverse(World, g), "t")
        /\ \A h \in live \ {g} :
              type[h] = type[g] =>
                  \A w \in Assign(World, h, g, TRUE) :
                      /\ PairSeq(w, h) = PairSeq(World, g)
                      /\ PairSeq(w, inverse(w, h)) = PairSeq(World, inverse(World, g))
                      /\ empty(w, g) /\ empty(w, inverse(w, g))
                      /\ inverse(w, inverse(w, g)) = g
                      /\ Consistent(w, h) /\ Consistent(w, g)

\* x and y hold two pairs each, and x is moved from, into a new object and
\* into y, whose own pairs are released
C16_Witness ==
    /\ {"x", "y"} \subseteq live
    /\ type["x"] = type["y"]
    /\ size(World, "x") = 2
    /\ size(World, "y") = 2
    /\ map["x"] # map["y"]
    /\ size(MoveCtor(World, "t", "x"), "t") = 2
    /\ \E w \in Assign(World, "y", "x", TRUE) :
          /\ w.map["y"] = map["x"]
          /\ size(w, "x") = 0
          /\ Cardinality(FreeAddrs(w)) = Cardinality(FreeAddrs(World)) + 4

\* C17: a container t move-constructed from the inverse view of a container
\* g holds the flipped pairs of g and owns an inverse object of its own; when
\* g has been destroyed t holds the same nodes, none of them released, each
\* referencing a node of its own inverse object, and find, erase and emplace
\* through both views of t work on them
C17_MoveFromInverse ==
    \A g \in Containers \cap live :
        LET src == inverse(World, g)
            w1 == MoveCtor(World, "t", src)
            w2 == Dtor(w1, g)
            ti == inverse(w2, "t")
        IN /\ PairBag(w1, "t") = FlipBag(PairBag(World, g))
           /\ PairSeq(w1, "t") = PairSeq(World, src)
           /\ w1.inverseAccess["t"].owner
           /\ inverse(w1, "t") \notin {g, src}
           /\ w2.live = (w1.live \ {g, src})
           /\ Held(w2, "t") = Held(w1, "t") /\ Held(w2, ti) = Held(w1, ti)
           /\ \A v \in {"t", ti} :
                 /\ Consistent(w2, v)
                 /\ \A k \in Key :
                       (find(w2, v, k) # END) = (\E p \in PairsOf(w1, v) : p[1] = k)
                 /\ \A pos \in Range(w2.map[v]) :
                       LET r == erase(w2, v, pos)
                       IN /\ r.ok
                          /\ Consistent(r.w, v)
                          /\ size(r.w, v) = size(w2, v) - 1
                 /\ Cardinality(FreeAddrs(w2)) >= 2 =>
                       \A a \in Key, b \in Key :
                           \A fp \in InsertPositions(w2, v, a),
                              ip \in InsertPositions(w2, inverse(w2, v), b) :
                               LET r == emplace(w2, v, a, b, fp, ip)
                               IN /\ Consistent(r.w, v)
                                  /\ r.second => 
                                        /\ size(r.w, v) = size(w2, v) + 1
                                        /\ <<a, b>> \in PairsOf(r.w, v)

\* x holds two pairs with different keys; a container moved from x.inverse()
\* holds them flipped after x is destroyed, and an erase through it works
C17_Witness ==
    /\ "x" \in live
    /\ size(World, "x") = 2
    /\ Cardinality(PairsOf(World, "x")) = 2
    /\ LET w2 == Dtor(MoveCtor(World, "t", inverse(World, "x")), "x")
       IN /\ "x" \notin w2.live
          /\ PairBag(w2, "t") = FlipBag(PairBag(World, "x"))
          /\ size(erase(w2, "t", begin(w2, "t")).w, inverse(w2, "t")) = 1

\* --------------------------------------------------------------------- swap
\* the memories in which a further container t of the type of h has been
\* built, empty or from one pair
WithSecond(h) ==
    UNION {RangeCtor(World, "t", type[h], items) :
              items \in {l \in ItemLists :
                            Len(l) <= 1 /\ Cardinality(FreeAddrs(World)) >= 2 * Len(l)}}

\* in w the views of a hold what the views of b held in w0, node for node
Exchanged(w, w0, a, b) ==
    /\ w.map[a] = w0.map[b]
    /\ w.map[inverse(w, a)] = w0.map[inverse(w0, b)]
    /\ PairSeq(w, a) = PairSeq(w0, b)
    /\ PairSeq(w, inverse(w, a)) = PairSeq(w0, inverse(w0, b))

\* C18: swap of two distinct containers h and t exchanges what they hold in
\* both views, h and h.inverse() showing the pairs t held and the reverse;
\* no node is allocated, released or written, and the inverse objects stay
\* with their containers, so inverse().inverse() is still the container.
\* The other container is the live one of the type of h, or, when h is the
\* only container, one built empty or from any one pair
C18_Swap ==
    \A h \in live :
        /\ Alone(h) =>
              \A w0 \in WithSecond(h) :
                  LET w == swap(w0, h, "t")
                  IN /\ Exchanged(w, w0, h, "t") /\ Exchanged(w, w0, "t", h)
                     /\ w.heap = w0.heap
                     /\ w.inverseAccess = w0.inverseAccess
                     /\ Consistent(w, h) /\ Consistent(w, "t")
        /\ \A g \in live \ {h} :
              type[g] = type[h] =>
                  LET w == swap(World, h, g)
                  IN /\ Exchanged(w, World, h, g) /\ Exchanged(w, World, g, h)
                     /\ w.heap = heap
                     /\ w.inverseAccess = inverseAccess
                     /\ Consistent(w, h) /\ Consistent(w, g)

\* after a container was destroyed or cleared, x holds two pairs and is
\* swapped with a container that holds one other pair
C18_Witness ==
    /\ Alone("x")
    /\ size(World, "x") = 2
    /\ Hole
    /\ \E w0 \in WithSecond("x") :
          /\ size(w0, "t") = 1
          /\ PairsOf(w0, "t") \cap PairsOf(w0, "x") = {}
          /\ PairsOf(swap(w0, "x", "t"), "x") = PairsOf(w0, "t")

\* --------------------------------------------------------------- operator==
\* emplace of the pairs of items one after the other, each new node placed
\* last in its map
RECURSIVE EmplaceLast(_, _, _)
EmplaceLast(w, h, items) ==
    IF items = <<>> THEN w
    ELSE EmplaceLast(emplace(w, h, items[1][1], items[1][2],
                             size(w, h) + 1, size(w, h) + 1).w, h, Tail(items))

\* the memories in which a further container t with the default base
\* containers has been built from a list of pairs, and those in which one
\* of its pairs has then been erased
Compared(h) ==
    LET built == {EmplaceLast(DefaultCtor(World, "t", type[h]), "t", items) :
                     items \in {l \in ItemLists :
                         Cardinality(FreeAddrs(World)) >= 2 * Len(l)}}
    IN built \cup {erase(w, "t", pos).w : <<w, pos>> \in
                      {c \in built \X Addr : c[2] \in Range(c[1].map["t"])}}

\* both base containers of h are std::unordered_map, the default
DefaultBases(h) ==
    type[h].ForwardMapType = "unordered_map" /\ type[h].InverseMapType = "unordered_map"

\* C19: operator== of two containers is the conjunction of the comparisons
\* of their forward maps and of their inverse maps, which compare the keys
\* the nodes reference and not the pointers; operator!= is its negation.
\* Containers that compare equal hold the same pairs, and with the default
\* base containers two containers compare equal exactly when they hold the
\* same set of pairs, whatever the order of their nodes and whether they
\* came about by insertions alone or by insertions and an erasure.  Two
\* live containers are compared, and a container that is the only one with
\* a further container t; x is built in every order of nodes, t in one
C19_Equality ==
    \A h \in live :
        /\ \A g \in live :
              type[g] = type[h] =>
                  /\ operator_eq(World, h, g) =
                        (MapEq(World, h, g)
                            /\ MapEq(World, inverse(World, h), inverse(World, g)))
                  /\ operator_ne(World, h, g) = ~operator_eq(World, h, g)
                  /\ operator_eq(World, h, g) => PairBag(World, h) = PairBag(World, g)
                  /\ DefaultBases(h) =>
                        operator_eq(World, h, g) = (PairsOf(World, h) = PairsOf(World, g))
        /\ (DefaultBases(h) /\ Alone(h)) =>
              \A w \in Compared(h) :
                  /\ operator_eq(w, h, "t") = (PairsOf(w, h) = PairsOf(w, "t"))
                  /\ operator_eq(w, "t", h) = operator_eq(w, h, "t")
                  /\ operator_ne(w, h, "t") = ~operator_eq(w, h, "t")

\* with the default base containers x holds two pairs, and a container with
\* the same two pairs in the opposite order of nodes, left by three
\* insertions and an erasure, compares equal to it; one that holds a single
\* pair of the two compares unequal
C19_Witness ==
    /\ "x" \in live
    /\ DefaultBases("x")
    /\ size(World, "x") = 2
    /\ \E w \in Compared("x") :
          /\ size(w, "t") = 1
          /\ PairsOf(w, "t") \subseteq PairsOf(w, "x")
          /\ operator_ne(w, "x", "t")
    /\ \E w \in Compared("x") :
          /\ size(w, "t") = 2
          /\ PairSeq(w, "t")[1] = PairSeq(w, "x")[2]
          /\ PairSeq(w, "t")[2] = PairSeq(w, "x")[1]
          /\ operator_eq(w, "x", "t")

\* ------------------------------------------------- uniqueness per direction
\* emplace(a, b) on h is accepted, wherever the new nodes are placed
Accepted(h, a, b) ==
    \A fp \in InsertPositions(World, h, a),
       ip \in InsertPositions(World, inverse(World, h), b) :
        emplace(World, h, a, b, fp, ip).second

\* emplace(a, b) on h is rejected, wherever the new nodes would be placed
Rejected(h, a, b) ==
    \A fp \in InsertPositions(World, h, a),
       ip \in InsertPositions(World, inverse(World, h), b) :
        ~emplace(World, h, a, b, fp, ip).second

\* C20: two stored pairs share a forward key only if the forward base
\* container is multi-valued, and an inverse key only if the inverse base
\* container is; emplace(a, b) is accepted exactly when a is not a stored
\* forward key or the forward base is multi-valued, and b is not a stored
\* inverse key or the inverse base is multi-valued, and rejected otherwise
C20_UniquenessPerDirection ==
    \A h \in live :
        LET F == is_multimap(type[h].ForwardMapType)
            I == is_multimap(type[h].InverseMapType)
            s == PairSeq(World, h)
        IN /\ \A m \in DOMAIN s, n \in DOMAIN s :
                 m # n =>
                     /\ s[m][1] = s[n][1] => F
                     /\ s[m][2] = s[n][2] => I
           /\ CanEmplace(h) =>
                 \A a \in Key, b \in Key :
                     IF (a \notin ForwardKeys(h) \/ F) /\ (b \notin InverseKeys(h) \/ I)
                     THEN Accepted(h, a, b)
                     ELSE Rejected(h, a, b)

\* a view with a multi-valued forward base and a unique-key inverse base
\* holds (a, b); emplace(a, b') with a new b' is accepted and leaves two
\* pairs under the forward key a, and emplace(a', b) with a new a' is
\* rejected
C20_Witness ==
    \E h \in live, a \in Key, b \in Key :
        /\ is_multimap(type[h].ForwardMapType)
        /\ ~is_multimap(type[h].InverseMapType)
        /\ <<a, b>> \in BagToSet(stored[h])
        /\ CanEmplace(h)
        /\ \E c \in Key \ InverseKeys(h) :
              /\ Accepted(h, a, c)
              /\ \A fp \in InsertPositions(World, h, a),
                    ip \in InsertPositions(World, inverse(World, h), c) :
                      LET s == PairSeq(emplace(World, h, a, c, fp, ip).w, h)
                      IN Cardinality({n \in DOMAIN s : s[n][1] = a}) = 2
        /\ \E c \in Key \ ForwardKeys(h) : Rejected(h, c, b)

\* -------------------------------------------- construction from a range
\* the caller's sequences of pairs: one pair more than a container that is
\* copied holds
MaxInput == MaxItems + 1

CtorInputs == UNION {[1..n -> Key \X Key] : n \in 0..MaxInput}

\* bidirectional_map(start, end) on x has delegated to bidirectional_map()
\* and stands at the head of its loop; input is the caller's sequence and
\* start the position of the iterator start in it
InitCtor ==
    \E FI \in MapPairs, items \in CtorInputs :
        LET w == DefaultCtor(Blank, "x", BiMapType("T", FI[1], FI[2]))
        IN /\ heap = w.heap
           /\ map = w.map
           /\ inverseAccess = w.inverseAccess
           /\ type = w.type
           /\ live = w.live
           /\ frame = [NoFrame EXCEPT !.pc = "ctor", !.h = "x", !.input = items, !.start = 1]
           /\ stored = [i \in Inst |-> EmptyBag]

\* one turn of the loop: emplace(*start), which copies *start into its own
\* pair tmp, and ++start
CtorEmplace ==
    /\ frame.pc = "ctor"
    /\ frame.start <= Len(frame.input)
    /\ LET tmp == frame.input[frame.start]
       IN \E fp \in InsertPositions(World, frame.h, tmp[1]),
             ip \in InsertPositions(World, inverse(World, frame.h), tmp[2]) :
             LET r == emplace(World, frame.h, tmp[1], tmp[2], fp, ip)
             IN /\ Continue(r.w, [frame EXCEPT !.start = @ + 1])
                /\ Told(frame.h, IF r.second THEN stored[frame.h] (+) SetToBag({tmp})
                                 ELSE stored[frame.h])

\* start == end: the constructor returns to the caller, who holds input
CtorReturn ==
    /\ frame.pc = "ctor"
    /\ frame.start > Len(frame.input)
    /\ Continue(World, [frame EXCEPT !.pc = "returned"])
    /\ UNCHANGED stored

NextCtor == CtorEmplace \/ CtorReturn

SpecCtor == InitCtor /\ [][NextCtor]_vars

\* the items of a list that a container of type T keeps when the first item
\* wins: an item is dropped when a unique-key side holds its key already
RECURSIVE Surviving(_, _, _)
Surviving(items, T, kept) ==
    IF items = <<>> THEN kept
    ELSE LET p == items[1]
             dropped ==
                 \/ ~is_multimap(T.ForwardMapType) /\ \E n \in DOMAIN kept : kept[n][1] = p[1]
                 \/ ~is_multimap(T.InverseMapType) /\ \E n \in DOMAIN kept : kept[n][2] = p[2]
         IN Surviving(Tail(items), T, IF dropped THEN kept ELSE Append(kept, p))

SeqBag(q) == [p \in Range(q) |-> Cardinality({n \in DOMAIN q : q[n] = p})]

\* what the container under construction holds when the items before start
\* have been taken: the surviving ones, in both views, every node linked
BuiltFromPrefix ==
    LET h == frame.h
        taken == SubSeq(frame.input, 1, frame.start - 1)
        kept == Surviving(taken, type[h], <<>>)
    IN /\ PairBag(World, h) = SeqBag(kept)
       /\ PairBag(World, inverse(World, h)) = FlipBag(SeqBag(kept))
       /\ PairBag(World, h) = stored[h]
       /\ Consistent(World, h)
       /\ IsSorted(type[h].ForwardMapType) =>
             \A n \in DOMAIN map[h], m \in DOMAIN map[h] :
                 n < m => PairSeq(World, h)[n][1] <= PairSeq(World, h)[m][1]
       /\ frame.pc = "returned" =>
             /\ frame.start = Len(frame.input) + 1
             /\ World \in RangeCtor(Blank, h, type[h], frame.input)

\* C21: the container built from a range or an initializer list holds what
\* emplace of each item in order leaves in an empty container: an item is
\* dropped when a unique-key side already holds its key, so the first item
\* wins; and no step of the constructor changes the caller's sequence
C21_RangeConstruction ==
    /\ [](frame.pc \in {"ctor", "returned"} => BuiltFromPrefix)
    /\ [][frame'.input = frame.input]_vars

\* a container with unique-key bases has been built from three items of
\* which the second repeats the forward key of the first and the third its
\* inverse key: it holds the first alone
C21_Witness ==
    /\ frame.pc = "returned"
    /\ UniqueBases("x")
    /\ Len(frame.input) = 3
    /\ frame.input[2][1] = frame.input[1][1] /\ frame.input[2][2] # frame.input[1][2]
    /\ frame.input[3][2] = frame.input[1][2] /\ frame.input[3][1] # frame.input[1][1]
    /\ PairSeq(World, "x") = <<frame.input[1]>>

\* ------------------------------------------- references to the inverse view
\* C22: in every step that an object h survives (a move from it, a copy or
\* move assignment to it, a swap, a clear, the construction or destruction
\* of another container) the object r that h.inverse() referred to before
\* the step is still alive, is still what h.inverse() refers to, has h as
\* its inverse(), keeps its type, and shows the flipped pairs of what h
\* holds after the step
C22_InverseReferenceStable ==
    [][\A h \in live \cap live' :
          LET r == inverse(World, h)
          IN /\ r \in live'
             /\ inverse(World', h) = r
             /\ inverse(World', r) = h
             /\ type'[r] = type[r]
             /\ PairBag(World', r) = FlipBag(PairBag(World', h))]_vars

\* x and y hold two pairs each and the nodes x was built with are now held
\* by y: x has been swapped or moved from and assigned to since; x.inverse()
\* is the object it was at construction
C22_Witness ==
    /\ {"x", "y"} \subseteq live
    /\ size(World, "x") = 2
    /\ size(World, "y") = 2
    /\ 1 \in Range(map["y"])
    /\ inverse(World, "x") = "h1"
    /\ inverse(World, "h1") = "x"
    /\ PairBag(World, "h1") = FlipBag(PairBag(World, "x"))

\* ----------------------------------------------------------------- ownership
\* the live objects whose inverseAccess owns object i
OwnersOf(w, i) == {h \in w.live : w.inverseAccess[h] = AllocOncePointer(i, TRUE)}

\* of every two siblings one owns the other, which was allocated by it and
\* addresses it without owning; an allocated object has exactly one owner;
\* no live object addresses a released one, and a released one addresses
\* nothing
OwnedOnce(w) ==
    /\ \A h \in w.live :
          LET r == inverse(w, h)
          IN /\ r \in w.live
             /\ w.inverseAccess[h].owner # w.inverseAccess[r].owner
             /\ w.inverseAccess[h].owner = (h \in StackInst)
             /\ Cardinality(OwnersOf(w, h)) = (IF h \in StackInst THEN 0 ELSE 1)
    /\ \A i \in Inst \ w.live : w.inverseAccess[i] = NullPointer

\* C23: exactly one of two siblings owns the other, in every state and for
\* every container however it was constructed, copied, moved, assigned or
\* swapped; the pointer and the ownership of a surviving object never
\* change; an owned object is released in the step that destroys its owner
\* and in no other, and the destruction of any container releases that
\* container and the object it owns and leaves every other object with a
\* live sibling
C23_SingleOwner ==
    /\ [](/\ OwnedOnce(World)
          /\ \A c \in Containers \cap live :
                LET w == Dtor(World, c)
                IN /\ w.live = live \ {c, inverse(World, c)}
                   /\ OwnedOnce(w))
    /\ [][/\ \A h \in live \cap live' : inverseAccess'[h] = inverseAccess[h]
          /\ \A i \in live \ live' :
                i \notin StackInst => OwnersOf(World, i) \subseteq live \ live']_vars

\* y holds the nodes x was built with and x is empty: x has been moved from
\* or swapped; each container owns the inverse object it allocated when it
\* was constructed, and the parameter of an assignment is gone with its own
C23_Witness ==
    /\ {"x", "y"} \subseteq live
    /\ empty(World, "x")
    /\ 1 \in Range(map["y"])
    /\ inverseAccess["x"] = AllocOncePointer("h1", TRUE)
    /\ inverseAccess["h1"] = AllocOncePointer("x", FALSE)
    /\ inverseAccess["y"].owner
    /\ ~inverseAccess[inverse(World, "y")].owner
    /\ live = {"x", "h1", "y", inverse(World, "y")}

\* ------------------------------------------- erase with equal inverse keys
\* C24: between calls and with a multi-valued inverse base, erase(pos)
\* finds in the equal range of the inverse key the very node pos references
\* and removes that node and no node with an equal key; every pair that
\* remains keeps its node, its keys and the mutual link with its own
\* inverse node, also when pairs share an inverse key or are identical
C24_EraseBySlotIdentity ==
    \A h \in live :
        (frame.pc = "idle" /\ is_multimap(type[h].InverseMapType)) =>
            \A pos \in Range(map[h]) :
                LET inv == inverse(World, h)
                    sib == heap[pos].second
                    r == erase(World, h, pos)
                IN /\ r.ok
                   /\ SiblingOf(World, h, pos) = sib
                   /\ Range(r.w.map[inv]) = Range(map[inv]) \ {sib}
                   /\ Range(r.w.map[h]) = Range(map[h]) \ {pos}
                   /\ \A n \in Range(r.w.map[h]) :
                         /\ r.w.heap[n] = heap[n]
                         /\ r.w.heap[n].second \in Range(r.w.map[inv])
                         /\ r.w.heap[r.w.heap[n].second] = heap[heap[n].second]
                         /\ r.w.heap[r.w.heap[n].second].second = n

\* a view holds two identical pairs, and the inverse node of one of them is
\* not the first node with its key: erase of that pair leaves the other one
\* linked to the first node
C24_Witness ==
    \E h \in live :
        /\ frame.pc = "idle"
        /\ is_multimap(type[h].InverseMapType)
        /\ \E pos \in Range(map[h]), n \in Range(map[h]) :
              /\ n # pos
              /\ Deref(World, n) = Deref(World, pos)
              /\ SiblingByKey(World, h, pos) = heap[n].second
              /\ SiblingByKey(World, h, pos) # heap[pos].second
              /\ erase(World, h, pos).w.heap[heap[n].second] = heap[heap[n].second]

\* ------------------------------------------- rejection by the inverse key
\* emplace(a, b) on h passes the lookup of a and is rejected for b, a key of
\* the unique-key inverse store: the iterator returned denotes the stored
\* pair whose inverse key is b
ReturnsConflictingPair(h, a, b) ==
    \A fp \in InsertPositions(World, h, a),
       ip \in InsertPositions(World, inverse(World, h), b) :
        LET r == emplace(World, h, a, b, fp, ip)
        IN /\ ~r.second
           /\ r.w = World
           /\ r.first \in Range(map[h])
           /\ Deref(World, r.first)[2] = b

\* the calls that are rejected because of the inverse key alone
RejectedForInverseKey(h, a, b) ==
    /\ ~is_multimap(type[h].InverseMapType)
    /\ b \in InverseKeys(h)
    /\ is_multimap(type[h].ForwardMapType) \/ a \notin ForwardKeys(h)

\* C25: an emplace rejected because its inverse key is stored in a
\* unique-key inverse store returns the iterator of the pair with that
\* inverse key, for every forward base container
C25_RejectionReturnsConflict ==
    \A h \in live, a \in Key, b \in Key :
        RejectedForInverseKey(h, a, b) => ReturnsConflictingPair(h, a, b)

\* the same with a unique-key forward base container, where the forward key
\* of the conflicting pair denotes that pair alone
RejectionReturnsConflictUniqueForward ==
    \A h \in live, a \in Key, b \in Key :
        (RejectedForInverseKey(h, a, b) /\ ~is_multimap(type[h].ForwardMapType)) =>
            ReturnsConflictingPair(h, a, b)

\* ------------------------------------------------- emplace, step by step
\* The three statements of an accepted emplace, each a step of its own, and
\* the base container insertions that end with an exception (of the
\* allocator, or of the key's constructor, hash or comparison).  A base
\* container that throws from emplace is left as it was.

\* auto it = get_first(map.emplace(std::move(tmp.first), nullptr));
insert_first(w, h, a, fp) == MapEmplace(w, h, a, NULL, fp)

\* the second insertion with a null reference in the new node
insert_second_unreferenced(w, h, b, it, ip) == MapEmplace(w, inverse(w, h), b, NULL, ip)

\* auto invIt = get_first(inverseAccess->map.emplace(std::move(tmp.second), &it->first));
insert_second(w, h, b, it, ip) == MapEmplace(w, inverse(w, h), b, it, ip)

\* it->second = &invIt->first;
patch(w, it, invIt) == [w EXCEPT !.heap[it].second = invIt]

\* map.emplace throws: nothing was inserted, emplace has no handler
first_insert_throws(w, h) == w

\* a second insertion whose failure takes the first insertion back
second_insert_rolls_back(w, h, it) == MapErase(w, h, it).w

\* inverseAccess->map.emplace throws: the inverse map is as it was, emplace
\* has no handler and the node of it stays in map
second_insert_throws(w, h, it) == w

\* the calls of emplace that are followed step by step
CanCall(h) == Room /\ size(World, h) < MaxItems

\* emplace(a, b) is called on h: tmp is built and the two lookups are made;
\* a rejected call returns at once and has changed nothing
Call(h, a, b) ==
    /\ frame.pc = "idle"
    /\ CanCall(h)
    /\ IF emplace(World, h, a, b, 1, 1).second
       THEN Continue(World, [NoFrame EXCEPT !.pc = "first", !.h = h, !.tmp = <<a, b>>])
       ELSE Continue(World, NoFrame)
    /\ UNCHANGED stored

InsertFirst ==
    /\ frame.pc = "first"
    /\ \E fp \in InsertPositions(World, frame.h, frame.tmp[1]) :
          LET e == insert_first(World, frame.h, frame.tmp[1], fp)
          IN Continue(e.w, [frame EXCEPT !.pc = "second", !.it = e.first])
    /\ UNCHANGED stored

FirstThrows ==
    /\ frame.pc = "first"
    /\ Continue(first_insert_throws(World, frame.h), [frame EXCEPT !.pc = "threw"])
    /\ UNCHANGED stored

InsertSecond ==
    /\ frame.pc = "second"
    /\ \E ip \in InsertPositions(World, inverse(World, frame.h), frame.tmp[2]) :
          LET e == insert_second(World, frame.h, frame.tmp[2], frame.it, ip)
          IN Continue(e.w, [frame EXCEPT !.pc = "patch", !.invIt = e.first])
    /\ UNCHANGED stored

SecondThrows ==
    /\ frame.pc = "second"
    /\ Continue(second_insert_throws(World, frame.h, frame.it), [frame EXCEPT !.pc = "threw"])
    /\ UNCHANGED stored

\* the last statement, and return {iterator(it), true}
Patch ==
    /\ frame.pc = "patch"
    /\ Continue(patch(World, frame.it, frame.invIt), NoFrame)
    /\ Told(frame.h, stored[frame.h] (+) SetToBag({frame.tmp}))

\* erase(pos) between two calls of emplace
EraseBetween(h, pos) == frame.pc = "idle" /\ Erase(h, pos)

\* One thread calls the member functions, so a call begins when no call is
\* running; the program ends with the exception that leaves emplace.
NextCall ==
    \/ \E h \in live, a \in Key, b \in Key : Call(h, a, b)
    \/ InsertFirst
    \/ FirstThrows
    \/ InsertSecond
    \/ SecondThrows
    \/ Patch
    \/ \E h \in live : \E pos \in Range(map[h]) : EraseBetween(h, pos)

SpecCall == Init /\ [][NextCall]_vars

\* the allocated nodes that hold the null placeholder
Placeholders == {n \in Addr : heap[n] # Free /\ heap[n].second = NULL}

\* no placeholder is left, every node is linked and the stores hold what
\* the callers were told
Intact ==
    /\ Placeholders = {}
    /\ \A g \in live : Consistent(World, g)
    /\ StoresAsTold

\* every node of h but n references a node of the inverse store that
\* references it back
LinkedBut(h, n) ==
    \A m \in Range(map[h]) \ {n} :
        /\ heap[m].second \in Range(map[inverse(World, h)])
        /\ heap[heap[m].second].second = m

\* after a failed insertion: when the first one failed both stores are as
\* before the call; when the second one failed the forward store holds the
\* new key in a node with the placeholder, the inverse store is as before
\* the call, and the two stores differ in size
AfterThrow ==
    LET h == frame.h
        inv == inverse(World, h)
        it == frame.it
    IN IF it = NULL
       THEN Intact
       ELSE /\ it \in Range(map[h])
            /\ heap[it] = [first |-> frame.tmp[1], second |-> NULL]
            /\ \A m \in Range(map[inv]) : heap[m].second # it
            /\ size(World, h) = size(World, inv) + 1
            /\ PairBag(World, inv) = stored[inv]
            /\ LinkedBut(h, it)
            /\ ~C1_CardinalityEquality
            /\ ~C2_CrossConsistency

\* C26: an exception of the second insertion leaves emplace with the first
\* insertion in place: the forward store keeps the new node with its
\* placeholder and no sibling, so the sizes of the two stores differ and a
\* node references no sibling; an exception of the first insertion leaves
\* both stores as they were; the step that throws changes nothing itself
C26_NoRollback ==
    /\ [](frame.pc = "threw" => AfterThrow)
    /\ [][frame'.pc = "threw" => World' = World]_vars

\* a pair is stored, and the second insertion of a further emplace failed
C26_Witness ==
    /\ frame.pc = "threw"
    /\ frame.it # NULL
    /\ size(World, inverse(World, frame.h)) = 1
    /\ size(World, frame.h) = 2
    /\ Placeholders = {frame.it}

\* the memory before the two insertions of the running emplace
BeforeInsertions ==
    LET h == frame.h
        inv == inverse(World, h)
    IN [World EXCEPT !.heap[frame.it] = Free,
                     !.heap[frame.invIt] = Free,
                     !.map[h] = Without(@, {frame.it}),
                     !.map[inv] = Without(@, {frame.invIt})]

\* what the statements executed so far have done
StepState ==
    LET h == frame.h
        inv == inverse(World, h)
        it == frame.it
        invIt == frame.invIt
    IN /\ frame.pc \in {"idle", "first"} => Intact
       /\ frame.pc = "second" =>
             /\ Placeholders = {it}
             /\ it \in Range(map[h])
             /\ heap[it].first = frame.tmp[1]
             /\ \A m \in Range(map[inv]) : heap[m].second # it
             /\ size(World, inv) = size(World, h) - 1
             /\ LinkedBut(h, it)
       /\ frame.pc = "patch" =>
             /\ Placeholders = {it}
             /\ it \in Range(map[h])
             /\ invIt \in Range(map[inv])
             /\ heap[invIt] = [first |-> frame.tmp[2], second |-> it]
             /\ size(World, inv) = size(World, h)
             /\ LinkedBut(h, it)
             /\ patch(World, it, invIt) =
                    emplace(BeforeInsertions, h, frame.tmp[1], frame.tmp[2],
                            IndexOf(map[h], it), IndexOf(map[inv], invIt)).w

\* the statements follow one another in the order of the source
StepOrder ==
    frame'.pc # frame.pc =>
        <<frame.pc, frame'.pc>> \in
            {<<"idle", "first">>, <<"first", "second">>, <<"second", "patch">>,
             <<"patch", "idle">>, <<"first", "threw">>, <<"second", "threw">>}

\* C27: an accepted emplace inserts the forward key with the placeholder,
\* then the inverse key with the reference to the forward node, then writes
\* the reference to the inverse node over the placeholder; a placeholder
\* exists after the first statement and until the third and at no other
\* time, so that whenever no call is running, which is when a member
\* function can be called, every node is linked; the three statements
\* together do what emplace does as one operation
C27_StepOrder ==
    /\ [](frame.pc # "threw" => StepState)
    /\ [][StepOrder]_vars

\* a pair is stored and a further emplace stands before its last statement
C27_Witness ==
    /\ frame.pc = "patch"
    /\ size(World, frame.h) = 2
    /\ heap[frame.it].second = NULL
    /\ heap[frame.invIt].second = frame.it

\* ---------------------------------------------------------------- iteration
\* an increment that passes over a node
increment_skips(w, h, it) == Next_it(w.map[h], Next_it(w.map[h], it))

\* iterator::operator++ on an iterator of h
increment(w, h, it) == Next_it(w.map[h], it)

\* the iterator after k increments
RECURSIVE Advance(_, _, _, _)
Advance(w, h, it, k) ==
    IF k = 0 \/ it = END THEN it ELSE Advance(w, h, increment(w, h, it), k - 1)

\* for (it = begin(); it != end();) with it = erase(it) for the nodes in S
\* and ++it for the others, which are dereferenced: the nodes and pairs
\* seen, and the memory left; turns bounds the number of turns
RECURSIVE EraseWalk(_, _, _, _, _, _)
EraseWalk(w, h, it, S, seen, turns) ==
    IF it = END \/ turns = 0 THEN [w |-> w, it |-> it, seen |-> seen]
    ELSE IF it \in S
    THEN LET e == erase(w, h, it)
         IN EraseWalk(e.w, h, e.first, S, seen, turns - 1)
    ELSE EraseWalk(w, h, increment(w, h, it), S,
                   Append(seen, <<it, Deref(w, it)>>), turns - 1)

\* C28: from begin(), size() increments and no fewer lead to end(); the
\* iterators passed are the nodes of the store, each once, and each
\* dereferences to the key of its node and the key of the inverse node it
\* references, a pair the callers were told is stored; begin() is end()
\* exactly when the container is empty; a traversal that erases any set of
\* the pairs, continuing with the iterators erase returns, dereferences
\* every other pair once and leaves those in the container, which a
\* further iteration passes in as many increments
C28_Iteration ==
    \A h \in live :
        LET n == size(World, h)
            at_(k) == Advance(World, h, begin(World, h), k)
        IN /\ at_(n) = END
           /\ \A k \in 0..(n - 1) :
                 /\ at_(k) = map[h][k + 1]
                 /\ at_(k) # END
                 /\ Deref(World, at_(k)) =
                        <<heap[at_(k)].first, heap[heap[at_(k)].second].first>>
                 /\ CopiesIn(Deref(World, at_(k)), stored[h]) >= 1
           /\ \A j \in 1..n, k \in 1..n : j # k => map[h][j] # map[h][k]
           /\ BagCardinality(stored[h]) = n
           /\ (begin(World, h) = END) = empty(World, h)
           /\ \A S \in SUBSET Range(map[h]) :
                 LET r == EraseWalk(World, h, begin(World, h), S, <<>>, n)
                     rest == Without(map[h], S)
                 IN /\ r.it = END
                    /\ r.seen = [k \in DOMAIN rest |-> <<rest[k], Deref(World, rest[k])>>]
                    /\ r.w.map[h] = rest
                    /\ PairSeq(r.w, h) = [k \in DOMAIN rest |-> Deref(World, rest[k])]
                    /\ Advance(r.w, h, begin(r.w, h), Len(rest)) = END
                    /\ \A k \in 0..(Len(rest) - 1) :
                          Advance(r.w, h, begin(r.w, h), k) = rest[k + 1]

\* three pairs are stored, and a traversal that erases the second of them
\* sees the first and the third
C28_Witness ==
    \E h \in live :
        /\ size(World, h) = 3
        /\ Advance(World, h, begin(World, h), 2) = map[h][3]
        /\ Advance(World, h, begin(World, h), 3) = END
        /\ LET r == EraseWalk(World, h, begin(World, h), {map[h][2]}, <<>>, 3)
           IN /\ Len(r.seen) = 2
              /\ r.seen[1][1] = map[h][1]
              /\ r.seen[2][1] = map[h][3]
              /\ size(r.w, h) = 2

\* ------------------------------------------------------------ frame of a call
\* what a call on h that left memory w did to the pairs: every node that
\* stays is at its address with its key and its reference as before and in
\* the order of before; a node leaves together with the node it references,
\* and is released; new is the number of pairs the call may add, each a new
\* node in either store that reference each other
WholePairsOnly(w, h, new) ==
    LET inv == inverse(World, h)
        was == Range(map[h]) \cup Range(map[inv])
        is == Range(w.map[h]) \cup Range(w.map[inv])
    IN /\ \A n \in was \cap is : w.heap[n] = heap[n]
       /\ \A n \in was \ is : w.heap[n] = Free
       /\ \A n \in Range(map[h]) :
             (n \in Range(w.map[h])) = (heap[n].second \in Range(w.map[inv]))
       /\ Without(w.map[h], is \ was) = Without(map[h], was \ is)
       /\ Without(w.map[inv], is \ was) = Without(map[inv], was \ is)
       /\ Cardinality(Range(w.map[h]) \ was) = new
       /\ Cardinality(Range(w.map[inv]) \ was) = new
       /\ \A n \in Range(w.map[h]) \ was :
             /\ w.heap[n].second \in Range(w.map[inv]) \ was
             /\ w.heap[w.heap[n].second].second = n
       /\ inverse(w, h) = inv

\* C29: between calls, emplace, accepted or rejected, and erase by iterator,
\* by key and by range, through either view, leave every other stored pair
\* with its nodes, its keys and its mutual link; an accepted emplace adds
\* one pair of linked nodes, a rejected one nothing, and an erase removes
\* whole pairs and adds none
C29_PairsIndependent ==
    frame.pc = "idle" =>
        \A h \in live :
            /\ Room =>
                  \A a \in Key, b \in Key :
                      \A fp \in InsertPositions(World, h, a),
                         ip \in InsertPositions(World, inverse(World, h), b) :
                          LET r == emplace(World, h, a, b, fp, ip)
                          IN /\ WholePairsOnly(r.w, h, IF r.second THEN 1 ELSE 0)
                             /\ ~r.second => r.w = World
                             /\ r.second => /\ r.first \notin Range(map[h])
                                             /\ r.w.heap[r.first].first = a
                                             /\ r.w.heap[r.w.heap[r.first].second].first = b
            /\ \A pos \in Range(map[h]) :
                  LET r == erase(World, h, pos)
                  IN /\ WholePairsOnly(r.w, h, 0)
                     /\ Range(r.w.map[h]) = Range(map[h]) \ {pos}
            /\ \A key \in Key : WholePairsOnly(erase_key(World, h, key).w, h, 0)
            /\ \A pq \in ValidRanges(h) :
                  WholePairsOnly(erase_range(World, h, IterAt(map[h], pq[1]),
                                             IterAt(map[h], pq[2])).w, h, 0)

\* two pairs are stored; an emplace is rejected and changes nothing, the
\* first pair is erased through the inverse view, leaving the nodes of the
\* second as they were, and so does an emplace that is accepted after it
C29_Witness ==
    \E h \in live :
        /\ frame.pc = "idle"
        /\ size(World, h) = 2
        /\ Room
        /\ \E a \in Key, b \in Key : Rejected(h, a, b)
        /\ LET inv == inverse(World, h)
               r == erase(World, inv, map[inv][1])
               n == map[inv][2]
           IN /\ size(r.w, h) = 1
              /\ r.w.heap[n] = heap[n]
              /\ r.w.heap[heap[n].second] = heap[heap[n].second]
              /\ \E a \in Key, b \in Key :
                    LET e == emplace(r.w, h, a, b, 1, 1)
                    IN /\ e.second
                       /\ e.w.heap[n] = heap[n]
                       /\ e.w.heap[heap[n].second] = heap[heap[n].second]

\* -------------------------------------------- swap of handles on one store
\* x has the same key type and the same base container on both sides, so
\* that x.inverse() has the type of x; it is built from a list of pairs
InitSame ==
    \E M \in MapTypes, items \in ItemLists :
        \E w \in RangeCtor(Blank, "x", SameKeyType(M, M), items) : InitWorld(w)

\* swap(h, g) for any two of x and x.inverse(), and erase between swaps
NextSame ==
    \/ \E h \in live, g \in live : Swap(h, g)
    \/ \E h \in live : \E pos \in Range(map[h]) : Erase(h, pos)

SpecSame == InitSame /\ [][NextSame]_vars

\* C30: for an object h whose inverse() has its type, h.swap(h) leaves the
\* memory as it is, and after h.swap(h.inverse()) h holds the pairs
\* h.inverse() showed before, every pair (a, b) of h as (b, a), with every
\* node linked and both views of one size
C30_SwapSameStores ==
    \A h \in live :
        type[inverse(World, h)] = type[h] =>
            LET w == swap(World, h, inverse(World, h))
            IN /\ swap(World, h, h) = World
               /\ PairBag(w, h) = FlipBag(PairBag(World, h))
               /\ PairBag(w, inverse(w, h)) = PairBag(World, h)
               /\ size(w, h) = size(w, inverse(w, h))
               /\ Consistent(w, h)

\* h.swap(h.inverse()) exchanges the two maps and exchanges them back
SwapWithInverseChangesNothing ==
    \A h \in live :
        type[inverse(World, h)] = type[h] =>
            swap(World, h, inverse(World, h)) = World

====
